---- MODULE Spec2Model ----
(***************************************************************************)
(* Model of eye_in_hand_calibrate.py: the Targeting node (camera-info,     *)
(* end-effector-pose and image callbacks, the cached marker transforms)    *)
(* and the interactive loop Targeting.calibrate().                         *)
(*                                                                         *)
(* Angles are counted in quarter turns, so every rotation matrix has       *)
(* entries in {-1, 0, 1} and matrix inversion is exact.                    *)
(***************************************************************************)
EXTENDS Integers, Sequences, FiniteSets, TLC

VARIABLES
    camera_info_loaded,  \* self.camera_info_loaded (the attribute exists once line 40 has run)
    intrinsic_matrix,    \* self.intrinsic_matrix: <<>> while the attribute is not set, else <<K>>
    distortion_coefficients, \* self.distortion_coefficients: <<>> while not set, else <<vector>>
    info_last,           \* <<msg>>, msg the last camera-info message, recorded by CameraInfoObserved only
    cur_tcp_pose,        \* self.cur_tcp_pose: <<>> while the attribute is not set, else <<data>>
    g2r,                 \* self.g2r: <<>> while the attribute is not set, else <<matrix>>
    trans_mats,          \* self.trans_mats (<<>> also before line 42 or line 92 creates it: nothing reads it then)
    cb_pc,               \* position of the running _bgr_callback: "idle" or "loop"
    cb_frame,            \* detections (ids, rvecs, tvecs) of the frame of the last started _bgr_callback
    cb_i,                \* index of the for loop of _bgr_callback
    cb_prev,             \* vis_targeting() value when the running callback started
    cb_result,           \* "raised" when the last started _bgr_callback raised, else "returned" ("none" before the first)
    pc,                  \* position of the main thread: "line40", "line41", "line42" in __init__,
                         \* then in calibrate(): "prompt", "index", "done", "crashed"
    error,               \* exception that ended calibrate(), "" if none
    flag,                \* last operator input
    ticks,               \* operator inputs read so far
    attempts,            \* calls of vis_targeting() made by calibrate()
    o2c,                 \* value of vis_targeting() on the latest tick: <<>> is None
    tick_log,            \* logger calls of the latest tick
    o2cs,                \* local list o2cs
    g2rs,                \* local list g2rs
    calls,               \* history of cv2.calibrateHandEye invocations
    solver_args,         \* arguments of the latest cv2.calibrateHandEye invocation, <<>> before the first
    files                \* storage: tag |-> index of the solve whose result the file holds
                         \* (0: no file, EmptyFile: an empty or incomplete file, without a result)

vars == <<camera_info_loaded, intrinsic_matrix, distortion_coefficients, info_last, cur_tcp_pose, g2r, trans_mats,
          cb_pc, cb_frame, cb_i, cb_prev, cb_result,
          pc, error, flag, ticks, attempts, o2c, tick_log,
          o2cs, g2rs, calls, solver_args, files>>

infovars == <<camera_info_loaded, intrinsic_matrix, distortion_coefficients, info_last>>
cbvars == <<cb_pc, cb_frame, cb_i, cb_prev, cb_result>>
loopvars == <<pc, error, flag, ticks, attempts, o2c, tick_log, o2cs, g2rs, calls, solver_args, files>>

(***************************************************************************)
(* Bounds                                                                  *)
(***************************************************************************)
MaxTicks == 4

(***************************************************************************)
(* Program constants                                                       *)
(***************************************************************************)
acruco_id == 582
minimum_views == 3

(***************************************************************************)
(* Linear algebra on 3x3 integer matrices and 4x4 homogeneous transforms   *)
(***************************************************************************)
Cos4(k) == CASE k % 4 = 0 -> 1 [] k % 4 = 1 -> 0 [] k % 4 = 2 -> -1 [] OTHER -> 0
Sin4(k) == CASE k % 4 = 0 -> 0 [] k % 4 = 1 -> 1 [] k % 4 = 2 -> 0 [] OTHER -> -1

Eye3 == << <<1, 0, 0>>, <<0, 1, 0>>, <<0, 0, 1>> >>
RotX(k) == << <<1, 0, 0>>, <<0, Cos4(k), -Sin4(k)>>, <<0, Sin4(k), Cos4(k)>> >>
RotY(k) == << <<Cos4(k), 0, Sin4(k)>>, <<0, 1, 0>>, <<-Sin4(k), 0, Cos4(k)>> >>
RotZ(k) == << <<Cos4(k), -Sin4(k), 0>>, <<Sin4(k), Cos4(k), 0>>, <<0, 0, 1>> >>

MatMul(A, B) ==
    [i \in 1..3 |-> [j \in 1..3 |-> A[i][1] * B[1][j] + A[i][2] * B[2][j] + A[i][3] * B[3][j]]]
Transpose(A) == [i \in 1..3 |-> [j \in 1..3 |-> A[j][i]]]
MatVec(A, v) == [i \in 1..3 |-> A[i][1] * v[1] + A[i][2] * v[2] + A[i][3] * v[3]]
Neg(v) == [i \in 1..3 |-> -v[i]]

\* trans_mat = np.eye(4); trans_mat[:3, :3] = R; trans_mat[:3, 3] = t
Homogeneous(Rm, t) ==
    << <<Rm[1][1], Rm[1][2], Rm[1][3], t[1]>>,
       <<Rm[2][1], Rm[2][2], Rm[2][3], t[2]>>,
       <<Rm[3][1], Rm[3][2], Rm[3][3], t[3]>>,
       <<0, 0, 0, 1>> >>
\* m[:3, :3] and m[:3, 3]
RotOf(m) == [i \in 1..3 |-> [j \in 1..3 |-> m[i][j]]]
TransOf(m) == [i \in 1..3 |-> m[i][4]]

\* np.linalg.inv on a rigid transform: [R^T, -R^T t]
Inv(m) == Homogeneous(Transpose(RotOf(m)), Neg(MatVec(Transpose(RotOf(m)), TransOf(m))))

\* cv2.Rodrigues on a rotation vector along one coordinate axis
Rodrigues(rvec) ==
    CASE rvec[1] # 0 -> RotX(rvec[1])
      [] rvec[2] # 0 -> RotY(rvec[2])
      [] rvec[3] # 0 -> RotZ(rvec[3])
      [] OTHER -> Eye3

\* ret[3:]
From3(v) == [i \in 1..(IF Len(v) > 3 THEN Len(v) - 3 ELSE 0) |-> v[i + 3]]

\* utils.pose_to_transform(pose, mode): 3 position components followed by the
\* orientation; fails when the length does not match the mode
PoseToTransform(pose, mode) ==
    IF mode = "euler" /\ Len(pose) = 6
    THEN [ok |-> TRUE,
          m |-> Homogeneous(MatMul(RotZ(pose[6]), MatMul(RotY(pose[5]), RotX(pose[4]))),
                            <<pose[1], pose[2], pose[3]>>)]
    ELSE [ok |-> FALSE, m |-> Homogeneous(Eye3, <<0, 0, 0>>)]

(***************************************************************************)
(* Inputs                                                                  *)
(***************************************************************************)
\* operator inputs at the prompt
Flags == {"y", "Y"}

\* one detection of the Pose Estimator: marker id, rvec, tvec
Det(id, rvec, tvec) == [id |-> id, rvec |-> rvec, tvec |-> tvec]
TargetA == Det(582, <<0, 0, 0>>, <<1, 0, 2>>)
TargetB == Det(582, <<0, 0, 1>>, <<0, 1, 2>>)
Other == Det(7, <<1, 0, 0>>, <<3, 0, 2>>)

\* camera frames: has |-> FALSE is a frame in which detectMarkers returns ids = None
NoMarkers == [has |-> FALSE, dets |-> <<>>]
Frames == { NoMarkers,
            [has |-> TRUE, dets |-> <<TargetA>>],
            [has |-> TRUE, dets |-> <<Other>>],
            [has |-> TRUE, dets |-> <<Other, TargetB>>] }

\* data of the end-effector pose messages (Float64MultiArray, any length)
PoseMsgs == { <<1, 0, 0, 0, 0, 1>>,
              <<1, 0, 0, 0, 0, 1, 0, 0, 0>>,
              <<2, 1, 0, 0, 1, 0, 0, 0, 1>> }

\* a camera-info message: with or without an attribute data (a message of
\* class sensor_msgs CameraInfo has none)
InfoMsg(has, data) == [has_data |-> has, data |-> data]
InfoMsgs == { InfoMsg(FALSE, <<>>),
              InfoMsg(TRUE, <<600, 0, 320, 0, 600>>),
              InfoMsg(TRUE, <<600, 0, 320, 0, 600, 240>>),
              InfoMsg(TRUE, <<500, 0, 300, 0, 500, 200>>) }

\* outcomes of the external calls cv2.calibrateHandEye and np.save
SolverOutcomes == {"ok", "raise"}
\* np.save returns with the file written, returns with the file left
\* incomplete (the storage loses the data without an error), fails in its
\* open (the file is not touched), or fails while writing (its open in mode
\* "wb" has already emptied the file)
SaveOutcomes == {"ok", "incomplete", "raise_open", "raise_write"}

\* positions of the main thread at which rospy delivers messages to the
\* callbacks: all of them. The callback threads run beside the main thread
\* until the process is gone, so a callback can run inside a tick, between
\* two lines of calibrate(); what a tick reads it reads at lines 122, 125 and
\* 48, and a callback that runs after the last of these reads changes the
\* state as it does when it runs after the tick, also after the tick that
\* ends calibrate() with an exception
Alive == {"line40", "line41", "line42", "prompt", "index", "done", "crashed"}

\* self.camera_info_loaded exists once line 40 has run
HasLoadedFlag(p) == p # "line40"

\* self._cv_bridge exists once line 41 has run
HasCvBridge(p) == p \notin {"line40", "line41"}

(***************************************************************************)
(* Callbacks                                                               *)
(***************************************************************************)
\* mutant: the cache is never seen
VisTargeting_None(tm) == <<>>

\* vis_targeting(): None is <<>>, a transform m is <<m>>
VisTargeting(tm) == IF tm = <<>> THEN <<>> ELSE <<tm[1]>>

\* _read_tcp_position_sub
ReadTcpPositionSub(data) ==
    /\ pc \in Alive
    /\ cur_tcp_pose' = <<data>>
    /\ UNCHANGED infovars
    /\ UNCHANGED <<g2r, trans_mats>>
    /\ UNCHANGED cbvars
    /\ UNCHANGED loopvars

\* line 55
ShouldLoad(loaded) == ~loaded

\* np.zeros(5), line 63
Zeros5 == <<0, 0, 0, 0, 0>>

\* _camera_info_callback raises: line 55 before self.camera_info_loaded exists
\* (AttributeError), lines 57-60 on a message without data (AttributeError) or
\* with fewer than 6 entries (IndexError); rospy logs the exception and goes on
CameraInfoRaises(msg) ==
    \/ ~HasLoadedFlag(pc)
    \/ /\ ShouldLoad(camera_info_loaded)
       /\ (~msg.has_data \/ Len(msg.data) < 6)

\* _camera_info_callback
CameraInfoLoad(msg) ==
    /\ pc \in Alive
    /\ IF CameraInfoRaises(msg)
       THEN \* the exception comes before the first assignment of line 56
            UNCHANGED <<intrinsic_matrix, distortion_coefficients, camera_info_loaded>>
       ELSE IF ShouldLoad(camera_info_loaded)
       THEN /\ intrinsic_matrix' = << [fx |-> msg.data[1], fy |-> msg.data[5],
                                      cx |-> msg.data[3], cy |-> msg.data[6]] >>
            /\ distortion_coefficients' = <<Zeros5>>
            /\ camera_info_loaded' = TRUE
       ELSE UNCHANGED <<intrinsic_matrix, distortion_coefficients, camera_info_loaded>>
    /\ UNCHANGED <<cur_tcp_pose, g2r, trans_mats>>
    /\ UNCHANGED cbvars
    /\ UNCHANGED loopvars

\* _camera_info_callback on this message
CameraInfoCallback(msg) == CameraInfoLoad(msg) /\ UNCHANGED info_last

\* the same, with the message kept as the last one received
CameraInfoObserved(msg) == CameraInfoLoad(msg) /\ info_last' = <<msg>>

\* lines 96-105: the transform of detection d appended when its id is the target id
KeepMarker(tm, d) ==
    IF d.id = acruco_id
    THEN Append(tm, Homogeneous(Rodrigues(d.rvec), d.tvec))
    ELSE tm

\* line 92
ResetTransMats(tm) == <<>>

\* _bgr_callback, lines 68-92 (or to its end when it raises or ids is None)
BgrCallbackStart(frame) ==
    /\ pc \in Alive
    /\ cb_pc = "idle"
    /\ cb_frame' = frame
    /\ IF ~HasCvBridge(pc) \/ intrinsic_matrix = <<>>
       THEN \* line 68: self._cv_bridge does not exist, or line 80:
            \* self.intrinsic_matrix does not exist, AttributeError
            /\ cb_result' = "raised"
            /\ UNCHANGED <<trans_mats, cb_pc, cb_i, cb_prev>>
       ELSE IF ~frame.has
       THEN \* lines 115-119
            /\ cb_result' = "returned"
            /\ UNCHANGED <<trans_mats, cb_pc, cb_i, cb_prev>>
       ELSE /\ cb_prev' = VisTargeting(trans_mats)
            /\ trans_mats' = ResetTransMats(trans_mats)
            /\ cb_pc' = "loop"
            /\ cb_i' = 1
            /\ cb_result' = "returned"
    /\ UNCHANGED infovars
    /\ UNCHANGED <<cur_tcp_pose, g2r>>
    /\ UNCHANGED loopvars

\* _bgr_callback, one iteration of the for loop of lines 95-107; the last one
\* runs on to the publish of lines 109-114
BgrCallbackLoop ==
    /\ pc \in Alive
    /\ cb_pc = "loop"
    /\ trans_mats' = KeepMarker(trans_mats, cb_frame.dets[cb_i])
    /\ IF cb_i < Len(cb_frame.dets)
       THEN /\ cb_i' = cb_i + 1
            /\ UNCHANGED <<cb_pc, cb_result>>
            /\ UNCHANGED cb_prev
       ELSE \* the callback returns
            /\ cb_pc' = "idle"
            /\ cb_result' = "returned"
            /\ cb_i' = 1
            /\ cb_prev' = <<>>
    /\ UNCHANGED cb_frame
    /\ UNCHANGED infovars
    /\ UNCHANGED <<cur_tcp_pose, g2r>>
    /\ UNCHANGED loopvars

(***************************************************************************)
(* calibrate()                                                             *)
(***************************************************************************)
\* mutant: the stop test ignores case
IsStop_AnyCase(f) == f \in {"y", "Y"}

\* line 132
IsStop(f) == f = "y"

\* mutant: threshold off by one
EnoughViews_OffByOne(n) == n >= minimum_views - 1

\* line 146
EnoughViews(n) == n >= minimum_views

\* mutant: the new transform is put in front of the list
AppendO2c_Prepend(list, read) == IF read # <<>> THEN <<read[1]>> \o list ELSE list

\* lines 137-138
AppendO2c(list, read) == IF read # <<>> THEN Append(list, read[1]) ELSE list

\* line 141
AppendG2r(list, m) == Append(list, Inv(m))

\* mutant: one fixed file name
ArtifactTag_Fixed(n) == 0

\* mutant: the tag is one more than the view count
ArtifactTag_Next(n) == n + 1

\* line 168: the tag in the file name
ArtifactTag(n) == n

\* content of a file that np.save has opened for writing and not written to
\* its end
EmptyFile == -1

\* np.save not writing to the end: the file of that tag holds no result any more
Truncate(fs, tag) == [fs EXCEPT ![tag] = EmptyFile]

\* np.save: writes the file of that tag, leaves every other file alone
Save(fs, tag, content) == [fs EXCEPT ![tag] = content]

\* mutant: the gripper lists miss the first sample
SolverArgs_DropFirst(gs, os) ==
    [R_gripper2base |-> [i \in 1..(Len(gs) - 1) |-> RotOf(gs[i + 1])],
     t_gripper2base |-> [i \in 1..(Len(gs) - 1) |-> TransOf(gs[i + 1])],
     R_obj2cam |-> [i \in 1..Len(os) |-> RotOf(os[i])],
     t_obj2cam |-> [i \in 1..Len(os) |-> TransOf(os[i])]]

\* the arguments of cv2.calibrateHandEye, lines 147-150
SolverArgs(gs, os) ==
    [R_gripper2base |-> [i \in 1..Len(gs) |-> RotOf(gs[i])],
     t_gripper2base |-> [i \in 1..Len(gs) |-> TransOf(gs[i])],
     R_obj2cam |-> [i \in 1..Len(os) |-> RotOf(os[i])],
     t_obj2cam |-> [i \in 1..Len(os) |-> TransOf(os[i])]]

LogNoMarker == <<"error", "No AruCo markers detected.">>
LogCollected == <<"info", "Calibration data collected.">>
LogCurrent == <<"info", "Current Calibration">>
LogNotEnough == <<"warning", "Not enough views collected for calibration.">>

\* cv2.calibrateHandEye is a pure function: on lists it has already been given
\* (the lists only grow, so their length identifies them) it does what it did
\* then, and that call returned, or calibrate() would have ended there
CalibrateHandEye(n, so) ==
    IF \E i \in DOMAIN calls : calls[i].n = n THEN "ok" ELSE so

\* one entry of the history of solver invocations
\* (solved: cv2.calibrateHandEye returned; saved: np.save returned; whole: the
\* file holds the result)
Call(os, gs, solved, saved, whole) ==
    [n |-> Len(os), solved |-> solved, saved |-> saved, whole |-> whole]

\* lines 146-170, with the lists as they are after lines 137-144
SolveAndSave(os, gs, log, so, sv) ==
    IF EnoughViews(Len(os))
    THEN /\ solver_args' = <<SolverArgs(gs, os)>>
         /\ IF CalibrateHandEye(Len(os), so) = "raise"
            THEN \* cv2.calibrateHandEye raises, nothing catches it
                 /\ calls' = Append(calls, Call(os, gs, FALSE, FALSE, FALSE))
                 /\ pc' = "crashed"
                 /\ error' = "cv2.error"
                 /\ tick_log' = log
                 /\ UNCHANGED files
            ELSE IF sv = "raise_open"
            THEN \* np.save raises before it has a file, nothing catches it
                 /\ calls' = Append(calls, Call(os, gs, TRUE, FALSE, FALSE))
                 /\ pc' = "crashed"
                 /\ error' = "OSError"
                 /\ tick_log' = Append(log, LogCurrent)
                 /\ UNCHANGED files
            ELSE IF sv = "raise_write"
            THEN \* np.save raises after its open, nothing catches it
                 /\ calls' = Append(calls, Call(os, gs, TRUE, FALSE, FALSE))
                 /\ files' = Truncate(files, ArtifactTag(Len(os)))
                 /\ pc' = "crashed"
                 /\ error' = "OSError"
                 /\ tick_log' = Append(log, LogCurrent)
            ELSE IF sv = "incomplete"
            THEN \* np.save returns, the file is not written to its end
                 /\ calls' = Append(calls, Call(os, gs, TRUE, TRUE, FALSE))
                 /\ files' = Truncate(files, ArtifactTag(Len(os)))
                 /\ pc' = "prompt"
                 /\ tick_log' = Append(log, LogCurrent)
                 /\ UNCHANGED error
            ELSE /\ calls' = Append(calls, Call(os, gs, TRUE, TRUE, TRUE))
                 /\ files' = Save(files, ArtifactTag(Len(os)), Len(calls) + 1)
                 /\ pc' = "prompt"
                 /\ tick_log' = Append(log, LogCurrent)
                 /\ UNCHANGED error
    ELSE /\ tick_log' = Append(log, LogNotEnough)
         /\ pc' = "prompt"
         /\ UNCHANGED <<calls, solver_args, files, error>>

\* lines 136-170 for the value read by vis_targeting()
TickBody(read, so, sv) ==
    /\ o2c' = read
    /\ o2cs' = AppendO2c(o2cs, read)
    /\ IF read # <<>>
       THEN IF cur_tcp_pose = <<>>
            THEN \* line 48: self.cur_tcp_pose does not exist, AttributeError
                 /\ pc' = "crashed"
                 /\ error' = "AttributeError"
                 /\ tick_log' = <<>>
                 /\ UNCHANGED <<g2r, g2rs, calls, solver_args, files>>
            ELSE \E t \in {PoseToTransform(From3(cur_tcp_pose[1]), "euler")} :
                 IF ~t.ok
                 THEN \* line 50 raises
                      /\ pc' = "crashed"
                      /\ error' = "InvalidOrientationEncoding"
                      /\ tick_log' = <<>>
                      /\ UNCHANGED <<g2r, g2rs, calls, solver_args, files>>
                 ELSE /\ g2r' = <<t.m>>
                      /\ g2rs' = AppendG2r(g2rs, t.m)
                      /\ SolveAndSave(o2cs', g2rs', <<LogCollected>>, so, sv)
       ELSE /\ UNCHANGED <<g2r, g2rs>>
            /\ SolveAndSave(o2cs', g2rs', <<LogNoMarker>>, so, sv)

\* line 131-135 and line 122 of vis_targeting(): the prompt, the stop test and
\* the emptiness test of the cache; when the cache is empty the tick runs to
\* its end with o2c = None; t and a are the new values of the two counters
TickStep(f, so, sv, t, a) ==
    /\ pc = "prompt"
    /\ flag' = f
    /\ ticks' = t
    /\ IF IsStop(f)
       THEN /\ pc' = "done"
            /\ UNCHANGED <<error, attempts, o2c, tick_log, o2cs, g2rs, calls, solver_args, files, g2r>>
       ELSE /\ attempts' = a
            /\ IF trans_mats = <<>>
               THEN TickBody(<<>>, so, sv)
               ELSE /\ pc' = "index"
                    /\ UNCHANGED <<error, o2c, tick_log, o2cs, g2rs, calls, solver_args, files, g2r>>
    /\ UNCHANGED infovars
    /\ UNCHANGED <<cur_tcp_pose, trans_mats>>
    /\ UNCHANGED cbvars

\* one operator input, while fewer than MaxTicks have been read
TickInput(f, so, sv) ==
    /\ ticks < MaxTicks
    /\ TickStep(f, so, sv, ticks + 1, attempts + 1)

\* one operator input, any number of them until the solver is first invoked;
\* the two counters stop counting at MaxTicks
TickInputLive(f, so, sv) ==
    /\ calls = <<>>
    /\ TickStep(f, so, sv,
                IF ticks < MaxTicks THEN ticks + 1 ELSE ticks,
                IF attempts < MaxTicks THEN attempts + 1 ELSE attempts)

\* line 125 of vis_targeting() and the rest of the tick
TickIndex(so, sv) ==
    /\ pc = "index"
    /\ IF trans_mats = <<>>
       THEN \* self.trans_mats[0] on the list a callback has just emptied: IndexError
            /\ pc' = "crashed"
            /\ error' = "IndexError"
            /\ UNCHANGED <<o2c, tick_log, o2cs, g2rs, calls, solver_args, files, g2r>>
       ELSE TickBody(VisTargeting(trans_mats), so, sv)
    /\ UNCHANGED <<flag, ticks, attempts>>
    /\ UNCHANGED infovars
    /\ UNCHANGED <<cur_tcp_pose, trans_mats>>
    /\ UNCHANGED cbvars

(***************************************************************************)
(* __init__, lines 40-42, while the callbacks already run                  *)
(***************************************************************************)
\* line 40: self.camera_info_loaded = False
InitLine40 ==
    /\ pc = "line40"
    /\ camera_info_loaded' = FALSE
    /\ pc' = "line41"
    /\ UNCHANGED <<intrinsic_matrix, distortion_coefficients, info_last>>
    /\ UNCHANGED <<cur_tcp_pose, g2r, trans_mats>>
    /\ UNCHANGED cbvars
    /\ UNCHANGED <<error, flag, ticks, attempts, o2c, tick_log, o2cs, g2rs, calls, solver_args, files>>

\* line 41: self._cv_bridge = CvBridge()
InitLine41 ==
    /\ pc = "line41"
    /\ pc' = "line42"
    /\ UNCHANGED infovars
    /\ UNCHANGED <<cur_tcp_pose, g2r, trans_mats>>
    /\ UNCHANGED cbvars
    /\ UNCHANGED <<error, flag, ticks, attempts, o2c, tick_log, o2cs, g2rs, calls, solver_args, files>>

\* line 42: self.trans_mats = [], over whatever a callback has put there;
\* then main() sleeps and calls calibrate()
InitLine42 ==
    /\ pc = "line42"
    /\ trans_mats' = <<>>
    /\ pc' = "prompt"
    /\ UNCHANGED infovars
    /\ UNCHANGED <<cur_tcp_pose, g2r>>
    /\ UNCHANGED cbvars
    /\ UNCHANGED <<error, flag, ticks, attempts, o2c, tick_log, o2cs, g2rs, calls, solver_args, files>>

(***************************************************************************)
(* Specification                                                           *)
(***************************************************************************)
\* the subscribers of lines 30-36 exist, line 40 has not run
Init ==
    /\ camera_info_loaded = FALSE
    /\ intrinsic_matrix = <<>>
    /\ distortion_coefficients = <<>>
    /\ info_last = <<>>
    /\ cur_tcp_pose = <<>>
    /\ g2r = <<>>
    /\ trans_mats = <<>>
    /\ cb_pc = "idle"
    /\ cb_frame = NoMarkers
    /\ cb_i = 1
    /\ cb_prev = <<>>
    /\ cb_result = "none"
    /\ pc = "line40"
    /\ error = ""
    /\ flag = ""
    /\ ticks = 0
    /\ attempts = 0
    /\ o2c = <<>>
    /\ tick_log = <<>>
    /\ o2cs = <<>>
    /\ g2rs = <<>>
    /\ calls = <<>>
    /\ solver_args = <<>>
    /\ files = [t \in 0..(MaxTicks + 1) |-> 0]

Next ==
    \/ InitLine40
    \/ InitLine41
    \/ InitLine42
    \/ \E d \in PoseMsgs : ReadTcpPositionSub(d)
    \/ \E d \in InfoMsgs : CameraInfoCallback(d)
    \/ \E fr \in Frames : BgrCallbackStart(fr)
    \/ BgrCallbackLoop
    \/ \E f \in Flags, so \in SolverOutcomes, sv \in SaveOutcomes : TickInput(f, so, sv)
    \/ \E so \in SolverOutcomes, sv \in SaveOutcomes : TickIndex(so, sv)

Spec == Init /\ [][Next]_vars

\* the node up to the first prompt of calibrate(): __init__ and the callbacks
\* run, and the camera-info messages are recorded
NextCallbacks ==
    \/ InitLine40
    \/ InitLine41
    \/ InitLine42
    \/ \E d \in PoseMsgs : ReadTcpPositionSub(d)
    \/ \E d \in InfoMsgs : CameraInfoObserved(d)
    \/ \E fr \in Frames : BgrCallbackStart(fr)
    \/ BgrCallbackLoop

SpecCallbacks == Init /\ [][NextCallbacks]_vars

\* the session up to its first solver invocation, the operator free to go on
\* for ever
NextLive ==
    \/ InitLine40
    \/ InitLine41
    \/ InitLine42
    \/ \E d \in PoseMsgs : ReadTcpPositionSub(d)
    \/ \E d \in InfoMsgs : CameraInfoCallback(d)
    \/ \E fr \in Frames : BgrCallbackStart(fr)
    \/ BgrCallbackLoop
    \/ \E f \in Flags, so \in SolverOutcomes, sv \in SaveOutcomes : TickInputLive(f, so, sv)
    \/ \E so \in SolverOutcomes, sv \in SaveOutcomes : TickIndex(so, sv)

\* __init__ goes on
Constructs == InitLine40 \/ InitLine41 \/ InitLine42

\* calibrate() goes on from line 122 to the end of the tick
TickFinishes == \E so \in SolverOutcomes, sv \in SaveOutcomes : TickIndex(so, sv)

\* the operator gives a non-stop input while the cache is not empty
TargetTick ==
    /\ trans_mats # <<>>
    /\ \E f \in Flags, so \in SolverOutcomes, sv \in SaveOutcomes :
          ~IsStop(f) /\ TickInputLive(f, so, sv)

\* threads that can run do run (the callback thread and the main thread), and
\* an operator who again and again finds the marker in the cache gives a
\* non-stop input at such a moment
LiveSpec ==
    /\ Init /\ [][NextLive]_vars
    /\ WF_vars(BgrCallbackLoop)
    /\ WF_vars(Constructs)
    /\ WF_vars(TickFinishes)
    /\ SF_vars(TargetTick)

(***************************************************************************)
(* Properties                                                              *)
(***************************************************************************)
Last(seq) == seq[Len(seq)]

\* the transforms of the detections of a frame that carry the target id, in order
TargetsOf(dets) ==
    LET RECURSIVE Go(_, _)
        Go(i, acc) == IF i > Len(dets) THEN acc
                      ELSE Go(i + 1, IF dets[i].id = acruco_id
                                     THEN Append(acc, Homogeneous(Rodrigues(dets[i].rvec), dets[i].tvec))
                                     ELSE acc)
    IN Go(1, <<>>)
\* what latest() should return once this frame is processed
LatestOf(frame) == IF TargetsOf(frame.dets) = <<>> THEN <<>> ELSE <<TargetsOf(frame.dets)[1]>>

\* C1: every invocation of the extrinsic solver happened with at least 3
\* accumulated samples, and a session holding fewer than 3 samples has had no
\* solver invocation, whatever the number of ticks.
C1_SolverNeedsThreeViews ==
    /\ \A i \in DOMAIN calls : calls[i].n >= 3
    /\ Len(o2cs) < 3 => calls = <<>>
\* four ticks, the first without a marker and without a solver invocation,
\* then three accepted samples and the solver invoked once, at 3 views
C1_Witness ==
    /\ pc = "prompt" /\ ticks = 4 /\ attempts = 4
    /\ Len(o2cs) = 3 /\ Len(calls) = 1 /\ calls[1].n = 3

\* C2: a tick whose cache read is None appends nothing to o2cs or g2rs,
\* logs the no-marker error and leaves the session collecting (calibrate()
\* is back at its prompt).
C2_NoneTickKeepsCollecting ==
    [][(pc = "prompt" /\ attempts' = attempts + 1 /\ pc' # "index")
        => /\ o2c' = <<>>
           /\ o2cs' = o2cs /\ g2rs' = g2rs
           /\ tick_log' # <<>> /\ tick_log'[1] = LogNoMarker
           /\ pc' = "prompt"]_vars

\* C3: after the solver failed at N views the session is still collecting
\* with exactly N samples and nothing was persisted for that attempt.
C3_SolverFailureNonFatal ==
    (calls # <<>> /\ ~Last(calls).solved)
        => /\ pc \in {"prompt", "index"}
           /\ Len(o2cs) = Last(calls).n /\ Len(g2rs) = Last(calls).n
           /\ ~Last(calls).saved

\* C4: whenever no detection callback is running and the last one returned,
\* latest() is None if the last frame held no marker with the target id (also
\* when it held no marker at all) and else the transform of that frame.
C4_CacheIsLatestFrame ==
    (cb_pc = "idle" /\ cb_result = "returned")
        => VisTargeting(trans_mats) = LatestOf(cb_frame)

C6_SaveFailureNonFatal ==
    (calls # <<>> /\ Last(calls).solved /\ ~Last(calls).saved)
        => /\ pc \in {"prompt", "index"}
           /\ Len(o2cs) = Last(calls).n /\ Len(g2rs) = Last(calls).n

\* C7: the number of stored object_in_camera transforms equals the number of
\* stored base_in_gripper transforms.
C7_SamplesPaired == Len(o2cs) = Len(g2rs)

\* C8: the stop token, and only it, ends the session; each other input makes
\* exactly one call of vis_targeting(); once Terminated the session stays
\* Terminated and appends no sample, invokes no solver and writes no file.
C8_TerminatedIsFinal ==
    [][/\ (pc = "prompt" /\ ticks' = ticks + 1)
            => IF flag' = "y"
               THEN pc' = "done" /\ UNCHANGED <<attempts, o2cs, g2rs, calls, files>>
               ELSE pc' # "done" /\ attempts' = attempts + 1
       /\ pc' = "done" => (pc = "done" \/ (pc = "prompt" /\ flag' = "y"))
       /\ pc = "done" => (pc' = "done" /\ UNCHANGED <<attempts, o2cs, g2rs, calls, files>>)
      ]_vars
\* stopped on the fourth input after three accepted samples and one solve
C8_Witness ==
    /\ pc = "done" /\ flag = "y" /\ ticks = 4 /\ attempts = 3
    /\ Len(o2cs) = 3 /\ Len(calls) = 1

\* C9: a read of the cache made while a detection callback runs returns the
\* value the cache held before that callback or the value the callback
\* finally publishes.
C9_AtomicCacheRead ==
    [][(/\ cb_pc = "loop"
        /\ \/ (pc = "prompt" /\ attempts' = attempts + 1 /\ pc' # "index")
           \/ (pc = "index" /\ pc' # "index" /\ error' # "IndexError"))
        => o2c' \in {cb_prev, LatestOf(cb_frame)}]_vars

\* C10: o2cs and g2rs only grow, by at most one entry per step, and every
\* entry already stored keeps its value.
C10_AppendOnly ==
    [][/\ Len(o2cs') \in {Len(o2cs), Len(o2cs) + 1}
       /\ Len(g2rs') \in {Len(g2rs), Len(g2rs) + 1}
       /\ SubSeq(o2cs', 1, Len(o2cs)) = o2cs
       /\ SubSeq(g2rs', 1, Len(g2rs)) = g2rs]_vars
\* three samples stored, the first two different from each other and the
\* cache and the tracked pose since overwritten with other values
C10_Witness ==
    /\ Len(o2cs) = 3 /\ Len(g2rs) = 3
    /\ o2cs[1] # o2cs[2] /\ g2rs[1] # g2rs[2]
    /\ trans_mats # <<>> /\ trans_mats[1] # o2cs[3]
    /\ cur_tcp_pose # <<>> /\ g2r # <<>> 
    /\ PoseToTransform(From3(cur_tcp_pose[1]), "euler").m # g2r[1]

\* the intrinsics _camera_info_callback builds from the data of a message
IntrinsicsOf(data) == [fx |-> data[1], fy |-> data[5], cx |-> data[3], cy |-> data[6]]

\* C11: the first camera-info message sets the intrinsics, the distortion
\* vector and the loaded flag; once loaded, no step changes the intrinsics,
\* the distortion vector or the flag.
C11_IntrinsicsLoadedOnce ==
    [][/\ (info_last = <<>> /\ info_last' # <<>>)
            => /\ camera_info_loaded'
               /\ intrinsic_matrix' = <<IntrinsicsOf(info_last'[1].data)>>
               /\ distortion_coefficients' = << <<0, 0, 0, 0, 0>> >>
       /\ camera_info_loaded
            => /\ camera_info_loaded'
               /\ intrinsic_matrix' = intrinsic_matrix
               /\ distortion_coefficients' = distortion_coefficients
      ]_vars

\* C12: no detection callback ends with an error, also not the one of a frame
\* that arrives before the first intrinsics message.
C12_EarlyFrameDropped == cb_result # "raised"

\* C13: a tick whose cache read is None appends no sample, invokes no solver
\* and writes no artifact.
C13_NoneTickContributesNothing ==
    [][(pc = "prompt" /\ attempts' = attempts + 1 /\ pc' # "index")
        => /\ o2c' = <<>>
           /\ o2cs' = o2cs /\ g2rs' = g2rs
           /\ calls' = calls /\ files' = files]_vars

\* C14: on an accepted tick the stored base_in_gripper is the inverse of the
\* transform of the complete tracked pose (position and orientation) and the
\* stored object_in_camera is the cache value read on that tick.
C14_SampleFromCompletePose ==
    [][Len(g2rs') = Len(g2rs) + 1
        => /\ PoseToTransform(cur_tcp_pose[1], "euler").ok
           /\ Last(g2rs') = Inv(PoseToTransform(cur_tcp_pose[1], "euler").m)
           /\ o2c' = VisTargeting(trans_mats)
           /\ Last(o2cs') = o2c'[1]]_vars

\* C15: at every solver invocation the four argument sequences have the
\* length of the sample lists, and their i-th entries are the rotation block
\* and the translation column of the i-th stored sample.
C15_SolverGetsFullSession ==
    [][Len(calls') = Len(calls) + 1
        => LET a == solver_args'[1]
               n == Len(o2cs')
           IN /\ Len(g2rs') = n /\ Last(calls').n = n
              /\ Len(a.R_gripper2base) = n /\ Len(a.t_gripper2base) = n
              /\ Len(a.R_obj2cam) = n /\ Len(a.t_obj2cam) = n
              /\ \A i \in 1..n : \A r \in 1..3 :
                    /\ a.t_gripper2base[i][r] = g2rs'[i][r][4]
                    /\ a.t_obj2cam[i][r] = o2cs'[i][r][4]
                    /\ \A c \in 1..3 :
                          /\ a.R_gripper2base[i][r][c] = g2rs'[i][r][c]
                          /\ a.R_obj2cam[i][r][c] = o2cs'[i][r][c]]_vars
\* the solver invoked a second time, on four samples that are not all alike
C15_Witness ==
    /\ Len(calls) = 2 /\ Last(calls).n = 4
    /\ solver_args # <<>> /\ Len(solver_args[1].R_obj2cam) = 4
    /\ o2cs[1] # o2cs[2] /\ g2rs[1] # g2rs[2]

\* the transforms of all detections with the target id the camera can deliver
TargetTransforms ==
    UNION { {TargetsOf(fr.dets)[i] : i \in DOMAIN TargetsOf(fr.dets)} : fr \in Frames }

\* C16: once a frame is processed the cache holds a transform only if that
\* frame shows a marker with the target id; the cache and every stored
\* object_in_camera hold transforms of target markers only.
C16_OnlyTargetMarker ==
    /\ (cb_pc = "idle" /\ cb_result = "returned" /\ trans_mats # <<>>)
          => \E i \in DOMAIN cb_frame.dets : cb_frame.dets[i].id = acruco_id
    /\ \A i \in DOMAIN trans_mats : trans_mats[i] \in TargetTransforms
    /\ \A i \in DOMAIN o2cs : o2cs[i] \in TargetTransforms

\* C17: while every solve has returned and every np.save has returned, the
\* view counts that have an artifact are exactly 3..n, n the number of
\* complete samples stored; and while moreover the storage has written every
\* file to its end, the view counts whose artifact holds a result are
\* exactly 3..n.
C17_ArtifactsAreThreeToN ==
    /\ (\A i \in DOMAIN calls : calls[i].solved /\ calls[i].saved)
          => {t \in DOMAIN files : files[t] # 0} = 3..Len(g2rs)
    /\ (\A i \in DOMAIN calls : calls[i].solved /\ calls[i].saved /\ calls[i].whole)
          => {t \in DOMAIN files : files[t] > 0} = 3..Len(g2rs)
\* four samples, artifacts for 3 and 4 views and for nothing else
C17_Witness ==
    /\ Len(g2rs) = 4 /\ Len(o2cs) = 4
    /\ \A i \in DOMAIN calls : calls[i].solved /\ calls[i].saved /\ calls[i].whole
    /\ {t \in DOMAIN files : files[t] > 0} = {3, 4}

\* C18: if again and again the session waits at its prompt with the target
\* marker in the cache (so calibrate() never ended: no stop token, and no
\* exception from a missing pose, the solver or the storage), then eventually
\* three samples are stored and the solver has been invoked; every started
\* tick ends; and once the stop token is read calibrate() has terminated.
C18_EventuallySolves ==
    /\ ([]<>(pc = "prompt" /\ trans_mats # <<>>))
          => <>(Len(o2cs) >= 3 /\ Len(g2rs) >= 3 /\ calls # <<>>)
    /\ (pc = "index") ~> (pc # "index")
    /\ [](flag = "y" => pc = "done")
\* three samples stored and the solver invoked, the session still collecting
C18_Witness ==
    /\ pc = "prompt" /\ Len(o2cs) = 3 /\ Len(g2rs) = 3
    /\ calls # <<>> /\ Last(calls).solved /\ Last(calls).saved

====
